---------------------------- MODULE Spec2Model ----------------------------
(***************************************************************************)
(* A model of src/index.ts: the dependency-resolving tree evaluator        *)
(* (Tree, parseTree, Abstract), the reference interpreter                  *)
(* (createInterpreter, build) and the clause grammar (QueryBuilder).       *)
(*                                                                         *)
(* A string is a sequence of one-character strings, so that indexOf,       *)
(* replace, split, trim and toString are computed as the code computes     *)
(* them.  The alphabet holds no "$", so the replacement patterns of        *)
(* String.prototype.replace never apply.                                   *)
(***************************************************************************)
EXTENDS Integers, Sequences, FiniteSets, TLC

VARIABLES
    program,    \* Abstract.program: sequence of Source triples
    macro,      \* Abstract.macro, as its sequence of entries
    cache,      \* Abstract.cache: display key -> accumulator
    resolver,   \* the resolver the interpreter wraps
    errors,     \* the interpreter's error log
    mcache,     \* the interpreter's own cache (read/save)
    calls,      \* every call the resolver received, in order
    forest,     \* the trees of the most recent compile, as it left them
    subs,       \* the substitutions of the most recent compile, in order
    reads,      \* the reads of dependencies of the most recent compile, in order
    outcome,    \* how the most recent compile ended
    used,       \* whether the interpreter is the one that compile ran with
    ncompiles,  \* the number of compile calls so far
    prev,       \* the Abstract and the interpreter as the most recent compile found them
    support,    \* QueryBuilder.support: header+operator -> factory
    headers,    \* QueryBuilder.headers
    made,       \* the clusters the filter string was written from
    filter,     \* the filter string the caller scans
    gens,       \* the generators scan has returned
    parsed      \* the most recent call of parse: the clause and what came of it

vars == <<program, macro, cache, resolver, errors, mcache, calls, forest,
          subs, reads, outcome, used, ncompiles, prev, support, headers, made, filter,
          gens, parsed>>

compileVars == <<program, macro, cache, resolver, errors, mcache, calls,
                 forest, subs, reads, outcome, used, ncompiles, prev>>

queryVars == <<support, headers, made, filter, gens, parsed>>

-----------------------------------------------------------------------------
(* Bounds of the model *)

MaxLines == 3

MaxCompiles == 2

StackLimit == 6

MaxClusters == 3

MaxScans == 2

-----------------------------------------------------------------------------
(* Tokens *)

FUN_COMPOSITION == ":"

CLAUSE_DELIMITER == ","

CLUSTER_BEGIN == "{"

CLUSTER_CLOSE == "}"

CLUSTER_OP_INNER == "~"

CLUSTER_OP_UNION == "+"

CLUSTER_OP_DIFFS == "-"

-----------------------------------------------------------------------------
(* Strings *)

\* whether kw occurs in text at the 1-based position p
OccursAt(text, kw, p) ==
    /\ p >= 1
    /\ p + Len(kw) - 1 <= Len(text)
    /\ \A i \in 1..Len(kw) : text[p + i - 1] = kw[i]

\* String.prototype.indexOf: the 0-based index of the first occurrence, or -1
IndexOf(text, kw) ==
    LET hits == {p \in 1..(Len(text) + 1) : OccursAt(text, kw, p)}
    IN  IF hits = {} THEN -1
        ELSE (CHOOSE p \in hits : \A q \in hits : p <= q) - 1

\* String.prototype.slice(from, to) with 0-based, in-range arguments
Slice(text, from, to) ==
    IF to <= from THEN <<>> ELSE SubSeq(text, from + 1, to)

\* String.prototype.replace with a string pattern: the first occurrence only
Replace(text, kw, rep) ==
    LET i == IndexOf(text, kw)
    IN  IF i = -1 THEN text
        ELSE Slice(text, 0, i) \o rep \o Slice(text, i + Len(kw), Len(text))

RECURSIVE Split(_, _)
\* String.prototype.split on a one-character separator
Split(text, sep) ==
    LET i == IndexOf(text, <<sep>>)
    IN  IF i = -1 THEN <<text>>
        ELSE <<Slice(text, 0, i)>> \o Split(Slice(text, i + 1, Len(text)), sep)

RECURSIVE TrimStart(_)
TrimStart(text) ==
    IF text # <<>> /\ Head(text) = " " THEN TrimStart(Tail(text)) ELSE text

RECURSIVE TrimEnd(_)
TrimEnd(text) ==
    IF text # <<>> /\ text[Len(text)] = " "
    THEN TrimEnd(SubSeq(text, 1, Len(text) - 1)) ELSE text

\* String.prototype.trim
Trim(text) == TrimEnd(TrimStart(text))

\* String.prototype.charAt: a string of length 0 or 1
CharAt(text, i) == IF i + 1 <= Len(text) THEN <<text[i + 1]>> ELSE <<>>

Digits == <<"0", "1", "2", "3", "4", "5", "6", "7", "8", "9">>

RECURSIVE NatToString(_)
NatToString(n) ==
    IF n < 10 THEN <<Digits[n + 1]>>
    ELSE NatToString(n \div 10) \o <<Digits[(n % 10) + 1]>>

\* Number.prototype.toString of a number held as <<n>>, NaN held as <<>>
NumberToString(v) ==
    IF v = <<>> THEN <<"N", "a", "N">>
    ELSE IF v[1] < 0 THEN <<"-">> \o NatToString(-v[1])
    ELSE NatToString(v[1])

-----------------------------------------------------------------------------
(* Accumulator, Solution, Tuple *)

INDEX == "index"

TUPLE == "tuple"

VALUE == "value"

NaN == <<>>

\* undefined, where an Accumulator is expected
Undefined == [xs |-> <<>>, sol |-> "undefined", val |-> NaN]

Accumulator(xs, sol, val) == [xs |-> xs, sol |-> sol, val |-> val]

\* the empty string, where an Accumulator is expected: destructured, it gives
\* three times undefined
EmptyString == [xs |-> <<>>, sol |-> "string", val |-> NaN]

\* whether a value counts as true in a condition: undefined and "" do not,
\* an array does whatever it holds
Truthy(acc) == acc \notin {Undefined, EmptyString}

\* Tuple: <<value, index>>
TupleValue(t) == t[1]


-----------------------------------------------------------------------------
(* Resolvers: the callbacks handed to createInterpreter.  Each is a pure   *)
(* function of (token, accumulator); a call either returns an accumulator  *)
(* (Undefined when it returns nothing) or throws.                          *)

Alphabet ==
    Digits \o <<"N", "a", "b", "f", "g", "k", "t", "v", "x", " ", ":", "{", "}">>

\* the place of a character in Alphabet, from 0: a digit's code is its value
Code(c) == (CHOOSE i \in 1..Len(Alphabet) : Alphabet[i] = c) - 1

RECURSIVE WeightedSum(_, _)
WeightedSum(token, i) ==
    IF i > Len(token) THEN 0 ELSE i * Code(token[i]) + WeightedSum(token, i + 1)

\* a digest of a token that tells apart tokens differing in any one character
Digest(token) == WeightedSum(token, 1) % 10

\* the number an accumulator stands for, by its solution kind
NumberOf(acc) ==
    IF acc.sol = VALUE /\ acc.val # NaN THEN acc.val[1]
    ELSE IF acc.sol = INDEX /\ acc.val # NaN
            /\ acc.val[1] >= 0 /\ acc.val[1] < Len(acc.xs)
         THEN TupleValue(acc.xs[acc.val[1] + 1])
    ELSE Len(acc.xs)

TuplesOf(acc) == IF acc.xs # <<>> THEN acc.xs ELSE <<<<NumberOf(acc), 0>>>>

\* (_, acc) => acc
ResolverPass(token, acc) == [throws |-> FALSE, acc |-> acc]

\* () => { throw new Error() }
ResolverThrows(token, acc) == [throws |-> TRUE, acc |-> acc]

\* an interpreter of tokens: "t" and "g" are functions that need an argument
\* (they throw without one) and give a tuple list and an index into it, a
\* {cluster} gives a tuple list, anything else gives a value made of the token
\* and of the argument
ResolverEval(token, acc) ==
    IF token \in {<<"t">>, <<"g">>}
    THEN IF acc = Undefined THEN [throws |-> TRUE, acc |-> acc]
         ELSE IF token = <<"t">>
         THEN [throws |-> FALSE, acc |-> Accumulator(TuplesOf(acc), TUPLE, NaN)]
         ELSE [throws |-> FALSE, acc |-> Accumulator(TuplesOf(acc), INDEX, <<0>>)]
    ELSE IF IndexOf(token, <<CLUSTER_BEGIN>>) > -1
    THEN [throws |-> FALSE,
          acc |-> Accumulator(<<<<Digest(token), 0>>>>, TUPLE, NaN)]
    ELSE [throws |-> FALSE,
          acc |-> Accumulator(<<>>, VALUE,
                              <<(2 * NumberOf(acc) + Digest(token) + 1) % 10>>)]

\* the interpreter of tokens above, for which "g" is not a function it knows:
\* it throws on the token "g" whatever the accumulator
ResolverStrict(token, acc) ==
    IF token = <<"g">> THEN [throws |-> TRUE, acc |-> acc]
    ELSE ResolverEval(token, acc)

\* () => ""
ResolverBlank(token, acc) == [throws |-> FALSE, acc |-> EmptyString]

Resolvers == {"pass", "throws", "eval"}

\* the resolvers above and the two that follow them
AllResolvers == Resolvers \cup {"strict", "blank"}

\* Resolver: (s, a, n, r) => Accumulator
Resolve(r, token, acc, n, input) ==
    CASE r = "pass"   -> ResolverPass(token, acc)
      [] r = "throws" -> ResolverThrows(token, acc)
      [] r = "eval"   -> ResolverEval(token, acc)
      [] r = "strict" -> ResolverStrict(token, acc)
      [] r = "blank"  -> ResolverBlank(token, acc)

-----------------------------------------------------------------------------
(* createInterpreter.  An evaluation in progress is a record st: the trees *)
(* (trees), the interpreter's cache (mcache) and error log (errors), the   *)
(* resolver's calls (calls), the substitutions made (subs), the reads of   *)
(* dependencies (reads), the Abstract's cache (cache), the error thrown if *)
(* any (thrown, "" if none) and the value the last call returned (ret).    *)

EmptyMap == [k \in {} |-> Undefined]

MapSet(map, k, v) == [x \in (DOMAIN map) \cup {k} |-> IF x = k THEN v ELSE map[x]]

\* Map.prototype.get: undefined when absent
MapGet(map, k) == IF k \in DOMAIN map THEN map[k] ELSE Undefined

\* fold had it logged what the resolver threw and returned undefined
FoldOutcomeDrops(st, acc, token, n, input, res) ==
    IF res.throws
    THEN [st EXCEPT !.calls = Append(@, [token |-> Trim(token), acc |-> acc,
                                         n |-> n, input |-> input,
                                         out |-> Undefined]),
                    !.errors = Append(@, [acc |-> acc, token |-> token,
                                          input |-> input, n |-> n]),
                    !.ret = Undefined]
    ELSE [st EXCEPT !.calls = Append(@, [token |-> Trim(token), acc |-> acc,
                                         n |-> n, input |-> input,
                                         out |-> res.acc]),
                    !.ret = res.acc]

\* the two ways out of fold's try: the resolver returned, or what it threw
\* was caught and logged with the untrimmed token, and the accumulator is
\* returned as it came
FoldOutcome(st, acc, token, n, input, res) ==
    IF res.throws
    THEN [st EXCEPT !.calls = Append(@, [token |-> Trim(token), acc |-> acc,
                                         n |-> n, input |-> input, out |-> acc]),
                    !.errors = Append(@, [acc |-> acc, token |-> token,
                                          input |-> input, n |-> n]),
                    !.ret = acc]
    ELSE [st EXCEPT !.calls = Append(@, [token |-> Trim(token), acc |-> acc,
                                         n |-> n, input |-> input,
                                         out |-> res.acc]),
                    !.ret = res.acc]

\* fold: the resolver gets the trimmed token
Fold(st, r, acc, token, n, input) ==
    FoldOutcome(st, acc, token, n, input, Resolve(r, Trim(token), acc, n, input))

\* read
Read(st, ref) == MapGet(st.mcache, ref)

\* save
Save(st, ref, val) == [st EXCEPT !.mcache = MapSet(@, ref, val), !.ret = val]

\* swap: destructuring undefined throws a TypeError, and so does reading
\* .value of a tuple the list does not hold
Swap(ref, str, acc) ==
    IF acc = Undefined THEN [throws |-> TRUE, str |-> <<>>]
    ELSE IF acc.sol = VALUE
    THEN [throws |-> FALSE, str |-> Replace(str, ref, NumberToString(acc.val))]
    ELSE IF acc.sol = INDEX
    THEN IF acc.val # NaN /\ acc.val[1] > -1
         THEN IF acc.val[1] < Len(acc.xs)
              THEN [throws |-> FALSE,
                    str |-> Replace(str, ref,
                              NumberToString(<<TupleValue(acc.xs[acc.val[1] + 1])>>))]
              ELSE [throws |-> TRUE, str |-> <<>>]
         ELSE [throws |-> FALSE, str |-> <<>>]
    ELSE [throws |-> FALSE, str |-> <<>>]

-----------------------------------------------------------------------------
(* Tree.  A tree is [value: currentValue, input, ref, deps]; ref is <<>>   *)
(* when the line publishes no name (undefined and "" are both falsy).  The *)
(* dependencies object maps a name to the one tree mem holds for it, so it *)
(* is kept as the sequence deps of its keys, in insertion order.           *)

NoRef == <<>>

\* new Tree(value, input, ref)
NewTree(value, input, ref) ==
    [value |-> value, input |-> input, ref |-> ref, deps |-> <<>>]

InSeq(seq, x) == \E i \in 1..Len(seq) : seq[i] = x

\* obj[k] = ... on an object kept as its key sequence: a new key goes last
AddKey(keys, k) == IF InSeq(keys, k) THEN keys ELSE Append(keys, k)

RECURSIVE MemKeysFrom(_, _)
MemKeysFrom(trees, i) ==
    IF i = 0 THEN <<>>
    ELSE IF trees[i].ref # NoRef
         THEN AddKey(MemKeysFrom(trees, i - 1), trees[i].ref)
         ELSE MemKeysFrom(trees, i - 1)

\* Object.keys(mem) of scanDependencyTree: the published names, first come first
MemKeys(trees) == MemKeysFrom(trees, Len(trees))

\* mem[a] of scanDependencyTree: the last tree that publishes a
Mem(trees, a) ==
    CHOOSE i \in 1..Len(trees) :
        /\ trees[i].ref = a
        /\ \A j \in 1..Len(trees) : trees[j].ref = a => j <= i

RECURSIVE Expand(_, _, _)
RECURSIVE ExpandKeysOnSelf(_, _, _, _)
\* Tree.expand had it called this.expand(deps) where it calls
\* depTree.expand(deps)
ExpandKeysOnSelf(st, i, j, depth) ==
    LET keys == MemKeys(st.trees)
    IN  IF st.thrown # "" \/ j > Len(keys) THEN st
        ELSE IF IndexOf(st.trees[i].value, keys[j]) > -1
        THEN LET d   == Mem(st.trees, keys[j])
                 st1 == [st EXCEPT !.trees[i].deps = AddKey(@, keys[j])]
                 st2 == IF Len(st1.trees[d].deps) > 0
                        THEN Expand(st1, i, depth + 1)
                        ELSE st1
             IN  ExpandKeysOnSelf(st2, i, j + 1, depth)
        ELSE ExpandKeysOnSelf(st, i, j + 1, depth)

RECURSIVE ExpandKeys(_, _, _, _)
\* the forEach of Tree.expand, from the j-th key of deps on
ExpandKeys(st, i, j, depth) ==
    LET keys == MemKeys(st.trees)
    IN  IF st.thrown # "" \/ j > Len(keys) THEN st
        ELSE IF IndexOf(st.trees[i].value, keys[j]) > -1
        THEN LET d   == Mem(st.trees, keys[j])
                 st1 == [st EXCEPT !.trees[i].deps = AddKey(@, keys[j])]
                 st2 == IF Len(st1.trees[d].deps) > 0
                        THEN Expand(st1, d, depth + 1)
                        ELSE st1
             IN  ExpandKeys(st2, i, j + 1, depth)
        ELSE ExpandKeys(st, i, j + 1, depth)

\* Tree.expand of tree i; a call deeper than the stack holds throws RangeError
Expand(st, i, depth) ==
    IF depth > StackLimit THEN [st EXCEPT !.thrown = "RangeError"]
    ELSE ExpandKeys(st, i, 1, depth)

-----------------------------------------------------------------------------
(* isInBetweenBraces, isFunctionArgument, parseTree *)

IsInBetweenBraces(text, keyword) ==
    LET index == IndexOf(text, keyword)
        start == IndexOf(text, <<CLUSTER_BEGIN>>)
        close == IndexOf(text, <<CLUSTER_CLOSE>>)
    IN  start < index /\ index < close

IsFunctionArgument(text, keyword) ==
    LET pos == IndexOf(text, <<FUN_COMPOSITION>>)
    IN  pos = -1 \/ IndexOf(text, keyword) > pos

\* one step of a reduce: fold the token at n into the accumulator st carries
FoldNext(st, r, tokens, n) == Fold(st, r, st.ret, tokens[n + 1], n, tokens)

RECURSIVE ReduceLeft(_, _, _, _)
\* tokens.reduce(m.fold, ...) up to the n-th token (0-based): parseTree had
\* it folded left to right
ReduceLeft(st, r, tokens, n) ==
    IF n < 0 THEN st
    ELSE FoldNext(ReduceLeft(st, r, tokens, n - 1), r, tokens, n)

RECURSIVE ReduceRight(_, _, _, _)
\* tokens.reduceRight(m.fold, ...) from the n-th token (0-based) down; the
\* accumulator carried is st.ret
ReduceRight(st, r, tokens, n) ==
    IF n < 0 THEN st
    ELSE ReduceRight(Fold(st, r, st.ret, tokens[n + 1], n, tokens), r, tokens, n - 1)

\* tokens.reduceRight(m.fold, undefined)
ReduceRightAll(st, r, tokens) ==
    ReduceRight([st EXCEPT !.ret = Undefined], r, tokens, Len(tokens) - 1)

\* return t.ref ? m.save(t.ref, tVal) : tVal
SaveTree(st, i) ==
    IF st.trees[i].ref # NoRef THEN Save(st, st.trees[i].ref, st.ret) ELSE st

\* parseTree after its loop: split, fold right to left, save
FoldTree(st, r, i) ==
    IF st.thrown # "" THEN st
    ELSE SaveTree(ReduceRightAll(st, r, Split(st.trees[i].value, FUN_COMPOSITION)), i)

\* parseTree had it always stitched the dependency's text in, whatever swap
\* returned
NewValueRaw(st, i, k, value0) ==
    Replace(st.trees[i].value, k, st.trees[Mem(st.trees, k)].value)

\* t.update(value0 ? value0 : t.currentValue.replace(k, t.dependencies[k].currentValue))
NewValue(st, i, k, value0) ==
    IF value0 # <<>> THEN value0
    ELSE Replace(st.trees[i].value, k, st.trees[Mem(st.trees, k)].value)

\* the update, and its record in subs; swap may have thrown
Update(st, i, k, sw) ==
    IF sw.throws THEN [st EXCEPT !.thrown = "TypeError"]
    ELSE [st EXCEPT !.trees[i].value = NewValue(st, i, k, sw.str),
                    !.subs = Append(@, [tree |-> i, k |-> k,
                                        before |-> st.trees[i].value,
                                        output |-> st.ret,
                                        value0 |-> sw.str,
                                        after |-> NewValue(st, i, k, sw.str)])]

\* const value0 = m.swap(k, t.currentValue, output), and the update with it
Substitute(st, i, k) ==
    IF st.thrown # "" THEN st
    ELSE Update(st, i, k, Swap(k, st.trees[i].value, st.ret))

RECURSIVE ParseDeps(_, _, _, _, _)
RECURSIVE ParseTree(_, _, _, _)
\* m.read(k) of parseTree, noted in reads: whether the interpreter's cache
\* holds k, what read returned, and whether the child is evaluated for it
LogRead(st, k) ==
    [st EXCEPT !.reads = Append(@, [k |-> k,
                                    stored |-> k \in DOMAIN st.mcache,
                                    value |-> Read(st, k),
                                    evaluated |-> ~Truthy(Read(st, k))])]

\* const output = m.read(k) || parseTree(t.dependencies[k], m)
Resolved(st, r, k, depth) ==
    IF Truthy(Read(st, k)) THEN [LogRead(st, k) EXCEPT !.ret = Read(st, k)]
    ELSE ParseTree(LogRead(st, k), r, Mem(st.trees, k), depth + 1)

\* the for-in loop of parseTree over t.dependencies, from its j-th key on
ParseDeps(st, r, i, j, depth) ==
    IF st.thrown # "" \/ j > Len(st.trees[i].deps) THEN st
    ELSE IF IsFunctionArgument(st.trees[i].value, st.trees[i].deps[j])
            \/ IsInBetweenBraces(st.trees[i].value, st.trees[i].deps[j])
    THEN ParseDeps(Substitute(Resolved(st, r, st.trees[i].deps[j], depth),
                              i, st.trees[i].deps[j]),
                   r, i, j + 1, depth)
    ELSE ParseDeps(st, r, i, j + 1, depth)

\* parseTree(t, m) of tree i with the interpreter wrapping resolver r; a call
\* deeper than the stack holds throws RangeError
ParseTree(st, r, i, depth) ==
    IF depth > StackLimit THEN [st EXCEPT !.thrown = "RangeError"]
    ELSE FoldTree(ParseDeps(st, r, i, 1, depth), r, i)

-----------------------------------------------------------------------------
(* Abstract *)

RECURSIVE ApplyMacro(_, _, _)
\* the inner loop of expandMacro on one text, from the j-th entry on
ApplyMacro(text, kwords, j) ==
    IF j > Len(kwords) THEN text
    ELSE ApplyMacro(IF IndexOf(text, kwords[j][1]) > -1
                    THEN Replace(text, kwords[j][1], kwords[j][2])
                    ELSE text,
                    kwords, j + 1)

\* expandMacro: program[i][0] is rewritten in place, input and ref are kept
ExpandMacro(prog, kwords) ==
    [i \in 1..Len(prog) |->
        <<ApplyMacro(prog[i][1], kwords, 1), prog[i][2], prog[i][3]>>]

RECURSIVE ExpandAllNamed(_, _)
\* scanDependencyTree had it expanded only the trees that publish a name
ExpandAllNamed(st, i) ==
    IF st.thrown # "" \/ i > Len(st.trees) THEN st
    ELSE ExpandAllNamed(IF st.trees[i].ref # NoRef THEN Expand(st, i, 1) ELSE st,
                        i + 1)

RECURSIVE ExpandAll(_, _)
\* trees.map(t => t.expand(mem)), from the i-th tree on
ExpandAll(st, i) ==
    IF st.thrown # "" \/ i > Len(st.trees) THEN st
    ELSE ExpandAll(Expand(st, i, 1), i + 1)

\* scanDependencyTree
ScanDependencyTree(st, prog) ==
    ExpandAll([st EXCEPT !.trees =
                  [i \in 1..Len(prog) |-> NewTree(prog[i][1], prog[i][2], prog[i][3])]],
              1)

\* compile had it keyed the cache by the publish name
CacheSetByRef(st, i) ==
    IF st.thrown # "" THEN st
    ELSE [st EXCEPT !.cache = MapSet(@, st.trees[i].ref, st.ret)]

\* this.cache.set(t.input, <what parseTree returned>)
CacheSet(st, i) ==
    IF st.thrown # "" THEN st
    ELSE [st EXCEPT !.cache = MapSet(@, st.trees[i].input, st.ret)]

RECURSIVE ParseAll(_, _, _)
\* the forEach of compile, from the i-th tree on
ParseAll(st, r, i) ==
    IF st.thrown # "" \/ i > Len(st.trees) THEN st
    ELSE ParseAll(CacheSet(ParseTree(st, r, i, 1), i), r, i + 1)

\* compile(m): the evaluation it leaves behind, thrown # "" when it threw
CompileRun(prog, kwords, r, mc, errs, cls) ==
    ParseAll(ScanDependencyTree(
                 [trees |-> <<>>, mcache |-> mc, errors |-> errs, calls |-> cls,
                  subs |-> <<>>, reads |-> <<>>, cache |-> EmptyMap, thrown |-> "",
                  ret |-> Undefined],
                 ExpandMacro(prog, kwords)),
             r, 1)

\* build(p, m): the program of an Abstract, each line its own display key
Build(p) == [i \in 1..Len(p) |-> <<p[i][1], p[i][1], p[i][2]>>]

-----------------------------------------------------------------------------
(* QueryBuilder.  A factory is known by the Queryable it is a clause of    *)
(* and the operator glyph it stands under there; the predicate a factory   *)
(* returns is known by the factory and the operand text it closed over.    *)

NoFactory == [of |-> <<>>, op |-> ""]

\* register had it replaced the registry by the clauses of the Queryable
RegisterSupportOnly(sup, queryable) ==
    [k \in {queryable.header \o <<op>> : op \in queryable.clauses} |->
        [of |-> queryable,
         op |-> CHOOSE op \in queryable.clauses : k = queryable.header \o <<op>>]]

\* register(queryable): queryable.clauses is the set of its operator glyphs
RegisterSupport(sup, queryable) ==
    [k \in (DOMAIN sup) \cup {queryable.header \o <<op>> : op \in queryable.clauses} |->
        IF \E op \in queryable.clauses : k = queryable.header \o <<op>>
        THEN [of |-> queryable,
              op |-> CHOOSE op \in queryable.clauses : k = queryable.header \o <<op>>]
        ELSE sup[k]]

\* parse had it reported the trimmed expression
UnexpectedTrimmed(input) ==
    <<"u", "n", "e", "x", "p", "e", "c", "t", "e", "d", " ", "\"">> \o Trim(input)
    \o <<"\"">>

\* new Error(`unexpected "${input}"`).message
Unexpected(input) ==
    <<"u", "n", "e", "x", "p", "e", "c", "t", "e", "d", " ", "\"">> \o input \o <<"\"">>

\* the end of parse: return call(tail), or throw new Error(`unexpected "${input}"`)
ParseCall(sup, input, key, tail) ==
    IF key \in DOMAIN sup
    THEN [throws |-> FALSE, test |-> [factory |-> sup[key], operand |-> tail],
          message |-> <<>>]
    ELSE [throws |-> TRUE, test |-> [factory |-> NoFactory, operand |-> tail],
          message |-> Unexpected(input)]

\* parse with expr = input.trim() and func worked out
ParseExpr(sup, input, expr, func) ==
    ParseCall(sup, input, CharAt(expr, 0) \o func,
              Trim(Slice(expr, IndexOf(expr, func) + 1, Len(expr))))

\* parse(input)
Parse(sup, input) ==
    ParseExpr(sup, input, Trim(input),
              CharAt(Trim(Slice(Trim(input), 1, Len(Trim(input)))), 0))

Signs == {CLUSTER_OP_INNER, CLUSTER_OP_UNION, CLUSTER_OP_DIFFS}

RECURSIVE SkipSpaces(_, _)
\* \s* from the 0-based index q: the index of the first character that is no space
SkipSpaces(text, q) ==
    IF q < Len(text) /\ text[q + 1] = " " THEN SkipSpaces(text, q + 1) ELSE q

\* the closing braces .+?\} can end at, given the opening brace at index q
Closes(text, q) == {e \in (q + 2)..(Len(text) - 1) : text[e + 1] = CLUSTER_CLOSE}

\* the grammar /([~\+\-]\s*\{.+?\})/ tried at the 0-based index p: the index
\* of the last character matched, or -1
MatchAt(text, p) ==
    IF p < Len(text) /\ text[p + 1] \in Signs
       /\ SkipSpaces(text, p + 1) < Len(text)
       /\ text[SkipSpaces(text, p + 1) + 1] = CLUSTER_BEGIN
       /\ Closes(text, SkipSpaces(text, p + 1)) # {}
    THEN CHOOSE e \in Closes(text, SkipSpaces(text, p + 1)) :
            \A f \in Closes(text, SkipSpaces(text, p + 1)) : e <= f
    ELSE -1

Matches(text, lastIndex) ==
    {p \in lastIndex..(Len(text) - 1) : MatchAt(text, p) # -1}

\* lexic.exec(input) with the flag g: the leftmost match from lastIndex on
Exec(text, lastIndex) ==
    IF Matches(text, lastIndex) = {} THEN [found |-> FALSE, index |-> 0, last |-> 0]
    ELSE LET p == CHOOSE m \in Matches(text, lastIndex) :
                      \A n \in Matches(text, lastIndex) : m <= n
         IN  [found |-> TRUE, index |-> p, last |-> MatchAt(text, p)]

\* scan had it left the input as it came
PrefixedNever(input) == input

\* if (input.charAt(0) === '{') input = '~' + input
Prefixed(input) ==
    IF CharAt(input, 0) = <<CLUSTER_BEGIN>> THEN <<CLUSTER_OP_INNER>> \o input
    ELSE input

\* scan had it handed the whole interior of the cluster to parse as one clause
ClausesWhole(value) ==
    <<Slice(value, IndexOf(value, <<CLUSTER_BEGIN>>) + 1,
            IndexOf(value, <<CLUSTER_CLOSE>>))>>

\* value.slice(begin + 1, close).split(',')
Clauses(value) ==
    Split(Slice(value, IndexOf(value, <<CLUSTER_BEGIN>>) + 1,
                IndexOf(value, <<CLUSTER_CLOSE>>)),
          CLAUSE_DELIMITER)

RECURSIVE ParseClauses(_, _, _, _)
\* clauses.map(this.parse.bind(this)) from the j-th clause on: the predicates
\* compiled, until one throws
ParseClauses(sup, clauses, j, acc) ==
    IF j > Len(clauses) THEN [throws |-> FALSE, test |-> acc, message |-> <<>>]
    ELSE IF Parse(sup, clauses[j]).throws
    THEN [throws |-> TRUE, test |-> acc, message |-> Parse(sup, clauses[j]).message]
    ELSE ParseClauses(sup, clauses, j + 1, Append(acc, Parse(sup, clauses[j]).test))

\* scan had it caught the error of parse and gone on to the next match
YieldSkips(gen, sup, value, last, res) ==
    IF res.throws
    THEN [gen EXCEPT !.state = "suspended", !.lastIndex = last]
    ELSE [gen EXCEPT !.state = "suspended", !.lastIndex = last,
                     !.yielded = Append(@, [sign |-> CharAt(value, 0)[1],
                                            text |-> value,
                                            test |-> res.test])]

\* the body of scan's loop for the match e[0] = value: yield a Query or throw
Yield(gen, sup, value, last, res) ==
    IF res.throws
    THEN [gen EXCEPT !.state = "threw", !.error = res.message, !.lastIndex = last]
    ELSE [gen EXCEPT !.state = "suspended", !.lastIndex = last,
                     !.yielded = Append(@, [sign |-> CharAt(value, 0)[1],
                                            text |-> value,
                                            test |-> res.test])]

\* one next() of a generator scan returned, once exec has answered: the
\* generator runs to its next yield, to its end or to the error it throws
Resume(gen, sup, e) ==
    IF ~e.found THEN [gen EXCEPT !.state = "done"]
    ELSE Yield(gen, sup, Trim(Slice(gen.input, e.index, e.last + 1)), e.last + 1,
               ParseClauses(sup,
                            Clauses(Trim(Slice(gen.input, e.index, e.last + 1))),
                            1, <<>>))

\* next(): the first one runs scan's prologue, which rewrites input
NextOf(gen, sup) ==
    IF gen.state = "created"
    THEN Resume([gen EXCEPT !.input = Prefixed(@)], sup,
                Exec(Prefixed(gen.input), gen.lastIndex))
    ELSE Resume(gen, sup, Exec(gen.input, gen.lastIndex))

\* scan had it kept one RegExp for all the sequences it returns: a new
\* sequence goes on from where the one before it stands
NewGeneratorShared(input) ==
    [input |-> input,
     lastIndex |-> IF gens = <<>> THEN 0 ELSE gens[Len(gens)].lastIndex,
     state |-> "created", yielded |-> <<>>, error |-> <<>>]

\* scan(input): the generator, none of its body run yet
NewGenerator(input) ==
    [input |-> input, lastIndex |-> 0, state |-> "created", yielded |-> <<>>,
     error |-> <<>>]

-----------------------------------------------------------------------------
(* The programs compiled: up to MaxLines lines [text, publish name] drawn   *)
(* from Lines, publish names unique, handed to build.  A line named "a"    *)
(* or "b" is referenced by every line whose text holds that letter; the    *)
(* name "ba" overlaps both.                                                *)

Lines ==
    { <<<<"t", ":", "v">>, <<"a">>>>,
      <<<<"v">>, <<"b">>>>,
      <<<<"b", "a">>, NoRef>>,
      <<<<"f", ":", " ", "g", ":", " ", "x">>, NoRef>>,
      <<<<"{", "b", "}">>, <<"a">>>>,
      <<<<"f", ":", "a">>, <<"b">>>>,
      <<<<"k", "k">>, <<"b", "a">>>> }

UniqueNames(p) ==
    \A i, j \in 1..Len(p) : (i # j /\ p[i][2] # NoRef) => p[i][2] # p[j][2]

Programs ==
    {p \in UNION {[1..n -> Lines] : n \in 1..MaxLines} : UniqueNames(p)}

\* the lines compiled with all the resolvers: in "f:b:x" the name b stands
\* between two ':'
FoldLines ==
    { <<<<"v">>, <<"b">>>>,
      <<<<"{", "b", "}">>, <<"a">>>>,
      <<<<"b", "a">>, NoRef>>,
      <<<<"f", ":", " ", "g", ":", " ", "x">>, NoRef>>,
      <<<<"f", ":", "b", ":", "x">>, NoRef>> }

FoldPrograms ==
    {p \in UNION {[1..n -> FoldLines] : n \in 1..MaxLines} : UniqueNames(p)}

\* the macro table: the keyword k stands for b
Macros == <<<<<<"k">>, <<"b">>>>>>

NoPrev ==
    [cache |-> EmptyMap, outcome |-> "none", program |-> <<>>,
     same |-> FALSE, fresh |-> TRUE]

-----------------------------------------------------------------------------
(* The filter strings scanned: up to MaxClusters clusters drawn from       *)
(* Clusters and written one after the other, a space between two.  A       *)
(* cluster is a sign, the white space after it and its clauses; a clause   *)
(* is a header, an operator glyph and an operand with the white space      *)
(* around them.                                                            *)

Clause(pre, header, mid, op, post, operand) ==
    [pre |-> pre, header |-> header, mid |-> mid, op |-> op, post |-> post,
     operand |-> operand]

Clusters ==
    { [sign |-> "~", gap |-> <<>>,
       clauses |-> <<Clause(<<>>, <<"x">>, <<" ">>, "=", <<" ">>, <<"1">>)>>],
      [sign |-> "+", gap |-> <<" ">>,
       clauses |-> <<Clause(<<>>, <<"x">>, <<>>, "=", <<>>, <<"1">>),
                     Clause(<<" ">>, <<"x">>, <<>>, "<", <<>>, <<"2">>)>>],
      [sign |-> "-", gap |-> <<" ">>,
       clauses |-> <<Clause(<<>>, <<"x">>, <<" ">>, "<", <<" ">>, <<"2">>)>>] }

ClusterLists == UNION {[1..n -> Clusters] : n \in 1..MaxClusters}

ClauseText(c) == c.pre \o c.header \o c.mid \o <<c.op>> \o c.post \o c.operand

RECURSIVE Join(_, _)
Join(texts, sep) ==
    IF texts = <<>> THEN <<>>
    ELSE IF Len(texts) = 1 THEN texts[1]
    ELSE texts[1] \o sep \o Join(Tail(texts), sep)

BodyText(cl) ==
    <<CLUSTER_BEGIN>>
    \o Join([j \in 1..Len(cl.clauses) |-> ClauseText(cl.clauses[j])],
            <<CLAUSE_DELIMITER>>)
    \o <<CLUSTER_CLOSE>>

ClusterText(cl) == <<cl.sign>> \o cl.gap \o BodyText(cl)

\* the filter string of the clusters cls; bare: its first cluster is written
\* without sign
FilterText(cls, bare) ==
    Join([i \in 1..Len(cls) |->
            IF i = 1 /\ bare THEN BodyText(cls[i]) ELSE ClusterText(cls[i])],
         <<" ">>)

\* the Queryable objects handed to register
Queryables ==
    { [header |-> <<"x">>, clauses |-> {"="}],
      [header |-> <<"x">>, clauses |-> {"<"}] }

\* parse not yet called
NoParse ==
    [clause |-> Clause(<<>>, <<>>, <<>>, "", <<>>, <<>>), registered |-> FALSE,
     factory |-> NoFactory,
     result |-> [throws |-> FALSE,
                 test |-> [factory |-> NoFactory, operand |-> <<>>],
                 message |-> <<>>]]

InitQuery ==
    /\ support = EmptyMap
    /\ headers = {}
    /\ gens = <<>>
    /\ parsed = NoParse

\* an Abstract that build made of the lines p, not yet compiled, and the
\* interpreter createInterpreter made of the resolver r
InitBuilt(p, r) ==
    /\ program = Build(p)
    /\ macro = Macros
    /\ cache = EmptyMap
    /\ resolver = r
    /\ errors = <<>>
    /\ mcache = EmptyMap
    /\ calls = <<>>
    /\ forest = <<>>
    /\ subs = <<>>
    /\ reads = <<>>
    /\ outcome = "none"
    /\ used = FALSE
    /\ ncompiles = 0
    /\ prev = NoPrev
    /\ made = [clusters |-> <<>>, bare |-> FALSE]
    /\ filter = <<>>
    /\ InitQuery

Init == \E p \in Programs : \E r \in Resolvers : InitBuilt(p, r)

InitFold == \E p \in FoldPrograms : \E r \in AllResolvers : InitBuilt(p, r)

\* whether the interpreter is as createInterpreter returned it
FreshInterpreter == errors = <<>> /\ mcache = EmptyMap /\ calls = <<>>

\* abs.compile(interpreter), with the interpreter used so far
Compile ==
    /\ ncompiles < MaxCompiles
    /\ LET st == CompileRun(program, macro, resolver, mcache, errors, calls)
       IN  /\ program' = ExpandMacro(program, macro)
           /\ cache' = st.cache
           /\ errors' = st.errors
           /\ mcache' = st.mcache
           /\ calls' = st.calls
           /\ forest' = st.trees
           /\ subs' = st.subs
           /\ reads' = st.reads
           /\ outcome' = IF st.thrown = "" THEN "returned" ELSE st.thrown
    /\ used' = TRUE
    /\ ncompiles' = ncompiles + 1
    /\ prev' = [cache |-> cache, outcome |-> outcome, program |-> program,
                same |-> used, fresh |-> FreshInterpreter]
    /\ UNCHANGED <<macro, resolver>>
    /\ UNCHANGED queryVars

\* interpreter = createInterpreter(resolver): a new log, a new cache
CreateInterpreter ==
    /\ ~FreshInterpreter
    /\ errors' = <<>>
    /\ mcache' = EmptyMap
    /\ calls' = <<>>
    /\ used' = FALSE
    /\ UNCHANGED <<program, macro, cache, resolver, forest, subs, reads,
                   outcome, ncompiles, prev>>
    /\ UNCHANGED queryVars

\* the Abstract and the interpreter the QueryBuilder runs next to
InitCompile ==
    /\ program = <<>>
    /\ macro = <<>>
    /\ cache = EmptyMap
    /\ resolver = "pass"
    /\ errors = <<>>
    /\ mcache = EmptyMap
    /\ calls = <<>>
    /\ forest = <<>>
    /\ subs = <<>>
    /\ reads = <<>>
    /\ outcome = "none"
    /\ used = FALSE
    /\ ncompiles = 0
    /\ prev = NoPrev

\* q.register(queryable)
Register(queryable) ==
    /\ support' = RegisterSupport(support, queryable)
    /\ headers' = headers \cup {queryable.header}
    /\ UNCHANGED <<made, filter, gens, parsed>>
    /\ UNCHANGED compileVars

\* q.scan(filter): a generator, its body not yet entered
Scan ==
    /\ Len(gens) < MaxScans
    /\ gens' = Append(gens, NewGenerator(filter))
    /\ UNCHANGED <<support, headers, made, filter, parsed>>
    /\ UNCHANGED compileVars

\* gens[g].next()
NextQuery(g) ==
    /\ g <= Len(gens)
    /\ gens[g].state \in {"created", "suspended"}
    /\ gens' = [gens EXCEPT ![g] = NextOf(gens[g], support)]
    /\ UNCHANGED <<support, headers, made, filter, parsed>>
    /\ UNCHANGED compileVars

Next ==
    \/ Compile
    \/ CreateInterpreter

Spec == Init /\ [][Next]_vars

\* the programs the caller can make of prog by one change: a line taken out,
\* or the line "ba", which publishes no name, put at the end
Edits(prog) ==
    {SubSeq(prog, 1, i - 1) \o SubSeq(prog, i + 1, Len(prog)) :
        i \in IF Len(prog) > 1 THEN 1..Len(prog) ELSE {}}
    \cup (IF Len(prog) < MaxLines
          THEN {Append(prog, <<<<"b", "a">>, <<"b", "a">>, NoRef>>)}
          ELSE {})

\* abs.program = p, between two compiles and once between them: the program
\* is as the most recent compile left it
SetProgram(p) ==
    /\ ncompiles > 0 /\ ncompiles < MaxCompiles
    /\ program = ExpandMacro(prev.program, macro)
    /\ program' = p
    /\ UNCHANGED <<macro, cache, resolver, errors, mcache, calls, forest, subs,
                   reads, outcome, used, ncompiles, prev>>
    /\ UNCHANGED queryVars

NextEdit ==
    \/ Compile
    \/ CreateInterpreter
    \/ \E p \in Edits(program) : SetProgram(p)

SpecEdit == Init /\ [][NextEdit]_vars

SpecFold == InitFold /\ [][Next]_vars

InitFilter ==
    /\ InitCompile
    /\ made \in [clusters : ClusterLists, bare : BOOLEAN]
    /\ filter = FilterText(made.clusters, made.bare)
    /\ InitQuery

NextFilter ==
    \/ \E queryable \in Queryables : Register(queryable)
    \/ Scan
    \/ \E g \in 1..MaxScans : NextQuery(g)

SpecQuery == InitFilter /\ [][NextFilter]_vars

-----------------------------------------------------------------------------
(* Sequences of scan side by side: the registry is one that register calls *)
(* can have left and stays as it is; scan is called on the filter string   *)
(* and on the filter string without its first cluster.                     *)

\* the registries that register calls leave: header x with '=' alone, and
\* with '=' and '<'
ScanRegistries ==
    {RegisterSupport(EmptyMap, [header |-> <<"x">>, clauses |-> {"="}]),
     RegisterSupport(EmptyMap, [header |-> <<"x">>, clauses |-> {"=", "<"}])}

\* the filters scanned side by side are made of the clusters of one clause,
\* each written with its sign
ScanLists ==
    {cls \in ClusterLists : \A i \in 1..Len(cls) : Len(cls[i].clauses) = 1}

\* the headers the register calls that left the registry sup have added
HeadersOf(sup) == {sup[k].of.header : k \in DOMAIN sup}

\* the filter string without its first cluster
RestOfFilter == FilterText(Tail(made.clusters), FALSE)

\* q.scan(input): a generator, its body not yet entered
ScanText(input) ==
    /\ Len(gens) < MaxScans
    /\ gens' = Append(gens, NewGenerator(input))
    /\ UNCHANGED <<support, headers, made, filter, parsed>>
    /\ UNCHANGED compileVars

InitScan ==
    /\ InitCompile
    /\ made \in [clusters : ScanLists, bare : {FALSE}]
    /\ filter = FilterText(made.clusters, made.bare)
    /\ support \in ScanRegistries
    /\ headers = HeadersOf(support)
    /\ gens = <<>>
    /\ parsed = NoParse

NextScan ==
    \/ \E input \in {filter, RestOfFilter} : ScanText(input)
    \/ \E g \in 1..MaxScans : NextQuery(g)

SpecScan == InitScan /\ [][NextScan]_vars

-----------------------------------------------------------------------------
(* parse and register on their own: the Queryable objects registered are   *)
(* those above, one that holds both operators of the header x, so that a   *)
(* later call can register an operator again, and one whose header has two *)
(* characters; the clauses parsed are written "<header> <operator>         *)
(* <operand>" or without white space.                                      *)

ParseQueryables ==
    Queryables
    \cup { [header |-> <<"x">>, clauses |-> {"=", "<"}],
           [header |-> <<"x", "y">>, clauses |-> {"="}] }

ClauseInputs ==
    { Clause(<<>>, <<"x">>, <<" ">>, "=", <<" ">>, <<"1">>),
      Clause(<<>>, <<"x">>, <<>>, "<", <<>>, <<"2">>),
      Clause(<<>>, <<"x">>, <<" ">>, "<", <<" ">>, <<"1", " ", "2">>),
      Clause(<<>>, <<"x", "y">>, <<" ">>, "=", <<" ">>, <<"1">>) }

\* q.parse(text of clause); registered and factory are what the registry
\* holds for the clause's header and operator when parse is called
ParseInput(clause) ==
    /\ parsed' = [clause |-> clause,
                  registered |-> (clause.header \o <<clause.op>>) \in DOMAIN support,
                  factory |-> IF (clause.header \o <<clause.op>>) \in DOMAIN support
                              THEN support[clause.header \o <<clause.op>>]
                              ELSE NoFactory,
                  result |-> Parse(support, ClauseText(clause))]
    /\ UNCHANGED <<support, headers, made, filter, gens>>
    /\ UNCHANGED compileVars

InitParse ==
    /\ InitCompile
    /\ made = [clusters |-> <<>>, bare |-> FALSE]
    /\ filter = <<>>
    /\ InitQuery

NextParse ==
    \/ \E queryable \in ParseQueryables : Register(queryable)
    \/ \E clause \in ClauseInputs : ParseInput(clause)

SpecParse == InitParse /\ [][NextParse]_vars

-----------------------------------------------------------------------------
(* The references of a program, as Tree.expand and parseTree see them *)

\* the display keys of a program's lines
KeysOf(prog) == {prog[i][2] : i \in 1..Len(prog)}

\* line i holds the publish name of line j: expand makes j a dependency of i
References(prog, i, j) ==
    prog[j][3] # NoRef /\ IndexOf(prog[i][1], prog[j][3]) > -1

Succ(prog, S) == {j \in 1..Len(prog) : \E i \in S : References(prog, i, j)}

RECURSIVE ReachFrom(_, _, _)
ReachFrom(prog, S, n) ==
    IF n = 0 THEN S ELSE ReachFrom(prog, S \cup Succ(prog, S), n - 1)

\* no line reaches itself through references
Acyclic(prog) ==
    \A i \in 1..Len(prog) : i \notin ReachFrom(prog, Succ(prog, {i}), Len(prog))

\* no two lines publish the same name
NamesUnique(prog) ==
    \A i, j \in 1..Len(prog) :
       (i # j /\ prog[i][3] # NoRef) => prog[i][3] # prog[j][3]

\* no line holds its own publish name
NoSelfRef(prog) == \A i \in 1..Len(prog) : ~References(prog, i, i)

NoReferences(prog) == \A i, j \in 1..Len(prog) : ~References(prog, i, j)

RECURSIVE SegmentsFrom(_, _)
SegmentsFrom(prog, i) ==
    IF i = 0 THEN 0
    ELSE Len(Split(prog[i][1], FUN_COMPOSITION)) + SegmentsFrom(prog, i - 1)

\* the ':'-separated segments of all the lines of a program
Segments(prog) == SegmentsFrom(prog, Len(prog))

\* what swap writes for an accumulator it takes a number from
ResolvedText(acc) ==
    IF acc.sol = VALUE THEN NumberToString(acc.val)
    ELSE NumberToString(<<TupleValue(acc.xs[acc.val[1] + 1])>>)

\* the orders the lines of a program of n lines can be written in
Orders(n) == {f \in [1..n -> 1..n] : \A i, j \in 1..n : f[i] = f[j] => i = j}

Permuted(prog, f) == [i \in 1..Len(prog) |-> prog[f[i]]]

\* compile of prog with an interpreter createInterpreter has just returned
FreshRun(prog) == CompileRun(prog, macro, resolver, EmptyMap, <<>>, <<>>)

\* the line "f: g: x"
FGX == <<"f", ":", " ", "g", ":", " ", "x">>

-----------------------------------------------------------------------------
(* Claims about compile, under Spec *)

\* the c-th substitution is one swap answered with a text for a name the
\* line's text still held
Swapped(c) ==
    subs[c].value0 # <<>> /\ IndexOf(subs[c].before, subs[c].k) > -1

\* the text the c-th substitution left is the text the next substitution of
\* the same line found, or else the line's text at the end
TextCarried(c) ==
    LET later == {d \in (c + 1)..Len(subs) : subs[d].tree = subs[c].tree}
    IN  IF later = {} THEN forest[subs[c].tree].value = subs[c].after
        ELSE subs[CHOOSE d \in later : \A e \in later : d <= e].before
                = subs[c].after

FoldedRightToLeft ==
    \A c \in 1..Len(calls) :
       /\ calls[c].n \in 0..(Len(calls[c].input) - 1)
       /\ calls[c].token = Trim(calls[c].input[calls[c].n + 1])
       /\ IF calls[c].n = Len(calls[c].input) - 1
          THEN calls[c].acc = Undefined
          ELSE /\ c > 1
               /\ calls[c - 1].input = calls[c].input
               /\ calls[c - 1].n = calls[c].n + 1
               /\ calls[c].acc = calls[c - 1].out
       /\ calls[c].n > 0 =>
             /\ c < Len(calls)
             /\ calls[c + 1].input = calls[c].input
             /\ calls[c + 1].n = calls[c].n - 1

\* the calls c, c+1, c+2 fold "f: g: x": x, then g, then f
FoldsFGX(c) ==
    /\ calls[c].input = <<<<"f">>, <<" ", "g">>, <<" ", "x">>>>
    /\ calls[c].token = <<"x">> /\ calls[c].n = 2 /\ calls[c].acc = Undefined
    /\ calls[c + 1].token = <<"g">> /\ calls[c + 1].n = 1
    /\ calls[c + 1].acc = calls[c].out
    /\ calls[c + 2].token = <<"f">> /\ calls[c + 2].n = 0
    /\ calls[c + 2].acc = calls[c + 1].out

\* the calls that fold the tokens of "f: g: x"
CallsOfFGX == {c \in 1..Len(calls) : calls[c].input = Split(FGX, FUN_COMPOSITION)}

\* C2: every ':'-separated segment of a line is folded once per evaluation
\* of the line, rightmost first, the first call given an undefined
\* accumulator and each later call the result of the call before; a program
\* without references costs one call per segment; the line "f: g: x" costs
\* three calls, on x, g and f in that order, and the accumulator cached for
\* it is what the call on f returned.
C2_RightToLeft ==
    used =>
       /\ FoldedRightToLeft
       /\ (prev.fresh /\ outcome = "returned" /\ NoReferences(program)) =>
             Len(calls) = Segments(program)
       /\ \A i \in 1..Len(program) :
             (outcome = "returned" /\ program[i][1] = FGX) =>
                \E c \in 1..(Len(calls) - 2) :
                   /\ FoldsFGX(c)
                   /\ cache[program[i][2]] = calls[c + 2].out
       /\ (prev.fresh /\ outcome = "returned"
           /\ Cardinality({i \in 1..Len(program) : program[i][1] = FGX}) = 1) =>
             Cardinality(CallsOfFGX) = 3

\* C2 witness: "f: g: x" has been compiled by a resolver that returns
\* accumulators, beside a line of one segment
C2_Witness ==
    /\ used /\ prev.fresh /\ outcome = "returned" /\ resolver = "eval"
    /\ Cardinality(CallsOfFGX) = 3
    /\ \E i \in 1..Len(program) : program[i][1] = FGX /\ cache[program[i][2]].sol = VALUE
    /\ Len(calls) > 3

\* C3 (as amended): after compile returns, the cache holds exactly one entry
\* per distinct display key of the program, keyed by the display key and not
\* by the publish name; lines that share a display key share one entry.
C3_OneEntryPerKey ==
    outcome = "returned" =>
       /\ DOMAIN cache = KeysOf(program)
       /\ Cardinality(DOMAIN cache) <= Len(program)

\* C3 witness: compile returned on a program with a named line and two lines
\* of the same display key
C3_Witness ==
    /\ outcome = "returned"
    /\ Cardinality(DOMAIN cache) < Len(program)
    /\ \E i \in 1..Len(program) :
          program[i][3] # NoRef /\ program[i][3] \notin DOMAIN cache

\* C3 (as stated): after compile returns, the cache has as many entries as the
\* program has lines
C3_AsStated == outcome = "returned" => Cardinality(DOMAIN cache) = Len(program)

\* C4 (as amended): compile ends without exhausting the stack for every
\* program whose references form no cycle, and exhausts it in Tree.expand
\* for every program in which a line reaches itself through references, be
\* it through its own name or through other named lines.
C4_TerminatesIfAcyclic ==
    ncompiles > 0 => (outcome = "RangeError" <=> ~Acyclic(program))

\* C4 witness: compile returned on a program in which a line references a
\* named line that references another named line
C4_Witness ==
    /\ outcome = "returned"
    /\ \E i, j, k \in 1..Len(program) :
          /\ i # j /\ j # k
          /\ References(program, i, j) /\ References(program, j, k)

\* C4 (as stated): compile terminates for every program in which no line holds
\* its own publish name
C4_AsStated == NoSelfRef(program) => outcome # "RangeError"

\* C5 (as stated, and only for programs without cyclic references): compile
\* with the reference interpreter never throws
C5_NeverThrows == Acyclic(program) => outcome \in {"none", "returned"}

\* C5 failing state: compile threw a TypeError on a program of two lines
\* without cyclic references, the resolver returning what it is given
C5_Failing ==
    /\ resolver = "pass" /\ outcome = "TypeError"
    /\ Len(program) = 2 /\ Acyclic(program)

\* C6 (as stated, and only for programs without cyclic references, of three
\* different lines of one segment each): with a resolver that throws on every
\* call, compile on a 3-line program completes, the cache has 3 entries and
\* the error log has 3 entries
C6_ErrorIsolation ==
    (/\ resolver = "throws" /\ used /\ prev.fresh
     /\ Len(program) = 3 /\ Acyclic(program)
     /\ Cardinality(KeysOf(program)) = 3 /\ Segments(program) = 3) =>
       (outcome = "returned" /\ Cardinality(DOMAIN cache) = 3 /\ Len(errors) = 3)

\* C6 failing state: with the resolver that throws on every call, compile
\* threw a TypeError on such a program, the errors of the folds so far logged
C6_Failing ==
    /\ resolver = "throws" /\ used /\ prev.fresh
    /\ Len(program) = 3 /\ Acyclic(program)
    /\ Cardinality(KeysOf(program)) = 3 /\ Segments(program) = 3
    /\ outcome = "TypeError" /\ Len(errors) > 0

\* C7 (as stated): a second compile on the same Abstract with the same
\* interpreter, the program text being the same before both, leaves the cache
\* as the first compile left it
C7_Idempotent ==
    (/\ ncompiles >= 2 /\ used /\ prev.same
     /\ prev.outcome = "returned" /\ program = prev.program) =>
       (outcome = "returned" /\ cache = prev.cache)

\* C7 failing state: both compiles returned, on the same program text and
\* with the same interpreter, and left the same keys with different
\* accumulators
C7_Failing ==
    /\ ncompiles >= 2 /\ used /\ prev.same
    /\ prev.outcome = "returned" /\ program = prev.program
    /\ outcome = "returned"
    /\ DOMAIN cache = DOMAIN prev.cache
    /\ cache # prev.cache

\* C8 (as stated): for a program of unique publish names without cyclic
\* references, compiled with a fresh interpreter, the cache is the same for
\* every order of the program's lines
C8_OrderIndependent ==
    (/\ used /\ prev.fresh /\ outcome = "returned"
     /\ NamesUnique(program) /\ Acyclic(program)) =>
       \A f \in Orders(Len(program)) :
          FreshRun(Permuted(prev.program, f)).cache = cache

\* the publish names of a program
Names(prog) == {prog[i][3] : i \in 1..Len(prog)} \ {NoRef}

\* no publish name is part of another
NoOverlap(prog) == \A m, n \in Names(prog) : m # n => IndexOf(m, n) = -1

\* C8 failing state: compile returned on a program of unique names, none part
\* of another, without cyclic references, and returns with another
\* accumulator under some display key for the same lines in another order
C8_Failing ==
    /\ used /\ prev.fresh /\ outcome = "returned"
    /\ NamesUnique(program) /\ NoOverlap(program) /\ Acyclic(program)
    /\ \E f \in Orders(Len(program)) :
          /\ FreshRun(Permuted(prev.program, f)).thrown = ""
          /\ \E key \in DOMAIN cache :
                FreshRun(Permuted(prev.program, f)).cache[key] # cache[key]

-----------------------------------------------------------------------------
(* Claims about the QueryBuilder, under SpecQuery *)

\* the sign and the text the Query of the i-th cluster of the filter carries
SignOf(i) ==
    IF i = 1 /\ made.bare THEN CLUSTER_OP_INNER ELSE made.clusters[i].sign

TextOf(i) ==
    IF i = 1 /\ made.bare
    THEN <<CLUSTER_OP_INNER>> \o BodyText(made.clusters[i])
    ELSE ClusterText(made.clusters[i])

\* the registry key of a clause: its header and its operator glyph
KeyOf(clause) == clause.header \o <<clause.op>>

\* the clauses of a cluster the registry sup has no factory for
Unknown(sup, cl) ==
    {j \in 1..Len(cl.clauses) : KeyOf(cl.clauses[j]) \notin DOMAIN sup}

\* the text of the first clause of a cluster the registry has no factory for
FirstUnknown(sup, cl) ==
    ClauseText(cl.clauses[CHOOSE j \in Unknown(sup, cl) :
                              \A k \in Unknown(sup, cl) : j <= k])

\* C9: scan yields one Query per cluster of the filter string, in the order
\* the clusters are written, each with the cluster's sign, its exact text and
\* one predicate per clause; the first cluster of a filter that begins with
\* '{' is yielded with sign '~' and text '~' followed by the cluster; a
\* generator that comes to its end has yielded every cluster.
C9_OneQueryPerCluster ==
    \A g \in 1..Len(gens) :
       /\ Len(gens[g].yielded) <= Len(made.clusters)
       /\ \A i \in 1..Len(gens[g].yielded) :
             /\ gens[g].yielded[i].sign = SignOf(i)
             /\ gens[g].yielded[i].text = TextOf(i)
             /\ Len(gens[g].yielded[i].test) = Len(made.clusters[i].clauses)
       /\ gens[g].state = "done" => Len(gens[g].yielded) = Len(made.clusters)

\* C9 witness: a filter of three clusters that begins with "{x = 1}" has
\* been scanned to its end: three Queries of signs '~', '+', '-', the first
\* of text "~{x = 1}" and of one predicate
C9_Witness ==
    /\ made.bare
    /\ \E g \in 1..Len(gens) :
          /\ gens[g].state = "done"
          /\ Len(gens[g].yielded) = 3
          /\ gens[g].yielded[1].sign = "~"
          /\ gens[g].yielded[1].text = <<"~", "{", "x", " ", "=", " ", "1", "}">>
          /\ Len(gens[g].yielded[1].test) = 1
          /\ gens[g].yielded[2].sign = "+"
          /\ gens[g].yielded[3].sign = "-"

\* the clauses of the clusters the filters are written from
AllClauses ==
    UNION {{cl.clauses[j] : j \in 1..Len(cl.clauses)} : cl \in Clusters}

\* parse throws on every clause the registry has no factory for, with the
\* clause's text in the message, and on no other
ParseThrowsOnUnknown ==
    \A clause \in AllClauses :
       IF KeyOf(clause) \in DOMAIN support
       THEN ~Parse(support, ClauseText(clause)).throws
       ELSE /\ Parse(support, ClauseText(clause)).throws
            /\ Parse(support, ClauseText(clause)).message
                  = <<"u", "n", "e", "x", "p", "e", "c", "t", "e", "d", " ", "\"">>
                    \o ClauseText(clause) \o <<"\"">>

\* the next() of generator g that reaches a cluster with a clause the registry
\* has no factory for throws, the first such clause in its message; no other
\* next() throws
ScanThrowsOnUnknown(g) ==
    LET n == Len(gens[g].yielded) + 1
    IN  IF n <= Len(made.clusters) /\ Unknown(support, made.clusters[n]) # {}
        THEN /\ gens'[g].state = "threw"
             /\ gens'[g].yielded = gens[g].yielded
             /\ gens'[g].error
                   = <<"u", "n", "e", "x", "p", "e", "c", "t", "e", "d", " ", "\"">>
                     \o FirstUnknown(support, made.clusters[n]) \o <<"\"">>
        ELSE gens'[g].state # "threw"

\* C10: for every clause whose header+operator key is not in the registry,
\* parse throws an Error whose message is 'unexpected "' + the clause text as
\* it stands in the input, white space included, + '"', and so does the
\* next() of scan that reaches the clause.
C10_UnexpectedClause ==
    /\ []ParseThrowsOnUnknown
    /\ [][\A g \in 1..Len(gens) :
             gens'[g] # gens[g] => ScanThrowsOnUnknown(g)]_vars

\* C10 witness: a next() has thrown on a clause written with a space before
\* it, after a clause of the same cluster compiled
C10_Witness ==
    \E g \in 1..Len(gens) :
       /\ gens[g].state = "threw"
       /\ gens[g].error
             = <<"u", "n", "e", "x", "p", "e", "c", "t", "e", "d", " ", "\"",
                 " ", "x", "<", "2", "\"">>
       /\ <<"x", "=">> \in DOMAIN support

\* the Queries generator g has yielded are those of the first clusters of
\* the filter, one each, in the order the clusters are written
YieldedFirst(g) ==
    /\ Len(gens[g].yielded) <= Len(made.clusters)
    /\ \A i \in 1..Len(gens[g].yielded) :
          gens[g].yielded[i].sign = SignOf(i) /\ gens[g].yielded[i].text = TextOf(i)

\* a generator that threw did so at a cluster of the filter, after the
\* Queries of the clusters before it and with the error in hand
ThrewAtCluster(g) ==
    gens[g].state = "threw" =>
       /\ YieldedFirst(g)
       /\ Len(gens[g].yielded) < Len(made.clusters)
       /\ gens[g].error # <<>>

\* one step seen from generator g: scan() returns it not yet run, whatever
\* the input holds; a generator that threw stays as it is; the next() that
\* reaches a cluster with a clause the registry has no factory for throws and
\* adds no Query; the next() that reaches another cluster yields its Query
AbortsAtOffending(g) ==
    IF g > Len(gens)
    THEN gens'[g].state = "created" /\ gens'[g].yielded = <<>>
         /\ gens'[g].error = <<>>
    ELSE IF gens[g].state = "threw" THEN gens'[g] = gens[g]
    ELSE IF gens'[g] = gens[g] THEN TRUE
    ELSE IF Len(gens[g].yielded) = Len(made.clusters)
    THEN gens'[g].state = "done" /\ gens'[g].yielded = gens[g].yielded
    ELSE IF Unknown(support, made.clusters[Len(gens[g].yielded) + 1]) # {}
    THEN /\ gens'[g].state = "threw"
         /\ gens'[g].yielded = gens[g].yielded
    ELSE /\ gens'[g].state = "suspended"
         /\ Len(gens'[g].yielded) = Len(gens[g].yielded) + 1
         /\ SubSeq(gens'[g].yielded, 1, Len(gens[g].yielded)) = gens[g].yielded

\* C11: when the n-th cluster of the input of scan holds a clause that is not
\* registered, the Queries of the clusters 1..n-1 are yielded in order before
\* any error, the error is thrown by the next() that reaches cluster n (not
\* by the call of scan, and it is not swallowed), and the sequence yields no
\* Query for cluster n or any later cluster.
C11_AbortsAtCluster ==
    /\ [](\A g \in 1..Len(gens) : ThrewAtCluster(g))
    /\ [][\A g \in 1..Len(gens') : AbortsAtOffending(g)]_vars

\* C11 witness: a generator threw at the second of three clusters after it
\* yielded the Query of the first; the third cluster holds registered
\* clauses only
C11_Witness ==
    /\ Len(made.clusters) = 3
    /\ Unknown(support, made.clusters[3]) = {}
    /\ \E g \in 1..Len(gens) :
          /\ gens[g].state = "threw"
          /\ Len(gens[g].yielded) = 1
          /\ gens[g].yielded[1].text = TextOf(1)

\* the predicate the factory the registry sup holds for a clause returns for
\* the clause's operand
Compiled(sup, clause) ==
    [factory |-> sup[KeyOf(clause)], operand |-> clause.operand]

\* the i-th Query of generator g holds one predicate per clause of the i-th
\* cluster, in clause order, each made by a factory registered under the
\* clause's header and operator from the clause's operand
GroupsCluster(g, i) ==
    /\ Len(gens[g].yielded[i].test) = Len(made.clusters[i].clauses)
    /\ \A j \in 1..Len(made.clusters[i].clauses) :
          /\ gens[g].yielded[i].test[j].operand = made.clusters[i].clauses[j].operand
          /\ gens[g].yielded[i].test[j].factory.op = made.clusters[i].clauses[j].op
          /\ gens[g].yielded[i].test[j].factory.of.header
                = made.clusters[i].clauses[j].header

\* the Query a next() of generator g has just yielded holds, clause by
\* clause, what the factory now registered for the clause returns
YieldsCompiled(g) ==
    Len(gens'[g].yielded) > Len(gens[g].yielded) =>
       gens'[g].yielded[Len(gens'[g].yielded)].test
          = [j \in 1..Len(made.clusters[Len(gens'[g].yielded)].clauses) |->
                Compiled(support, made.clusters[Len(gens'[g].yielded)].clauses[j])]

\* C12: a Query groups a whole cluster: its predicate list has exactly one
\* predicate per comma-separated clause of the cluster's interior, in clause
\* order, and the i-th predicate is what the factory registered for the i-th
\* clause's header+operator returns when called with that clause's operand.
C12_QueryGroupsCluster ==
    /\ [](\A g \in 1..Len(gens) :
             \A i \in 1..Len(gens[g].yielded) : GroupsCluster(g, i))
    /\ [][\A g \in 1..Len(gens) : YieldsCompiled(g)]_vars

\* C12 witness: the cluster "+ {x=1, x<2}" has been yielded as one Query of
\* two predicates, the first made by the factory of x= from "1", the second
\* by the factory of x< from "2"
C12_Witness ==
    \E g \in 1..Len(gens) :
       \E i \in 1..Len(gens[g].yielded) :
          /\ gens[g].yielded[i].text
                = <<"+", " ", "{", "x", "=", "1", ",", " ", "x", "<", "2", "}">>
          /\ Len(gens[g].yielded[i].test) = 2
          /\ gens[g].yielded[i].test[1]
                = [factory |-> support[<<"x", "=">>], operand |-> <<"1">>]
          /\ gens[g].yielded[i].test[2]
                = [factory |-> support[<<"x", "<">>], operand |-> <<"2">>]

-----------------------------------------------------------------------------
(* Claims about register and parse, under SpecParse *)

\* the registry keys of a Queryable: its header followed by each operator
KeysOfQueryable(q) == {q.header \o <<op>> : op \in q.clauses}

\* the step is a register of q that merged: the keys of q now hold the
\* factories of q, every other key holds what it held, no key is lost, the
\* header of q has joined the headers, and a clause that compiled under a
\* key q does not hold compiles to the same predicate
Merged(q) ==
    /\ DOMAIN support' = DOMAIN support \cup KeysOfQueryable(q)
    /\ \A k \in DOMAIN support \ KeysOfQueryable(q) : support'[k] = support[k]
    /\ \A op \in q.clauses : support'[q.header \o <<op>>] = [of |-> q, op |-> op]
    /\ headers' = headers \cup {q.header}
    /\ \A clause \in ClauseInputs :
          (/\ KeyOf(clause) \notin KeysOfQueryable(q)
           /\ ~Parse(support, ClauseText(clause)).throws) =>
             Parse(support', ClauseText(clause)) = Parse(support, ClauseText(clause))

\* C13: register merges: after a register call every header+operator key
\* registered before is still there with its factory unless the call
\* registered that same key, and then the factory of the call stands there;
\* a clause that compiled before a register call for other operators
\* compiles to the same predicate after it; the header set holds every header
\* ever registered.
C13_RegisterMerges ==
    /\ [](\A k \in DOMAIN support : support[k].of.header \in headers)
    /\ [][(support' # support \/ headers' # headers) =>
             \E q \in ParseQueryables : Merged(q)]_vars
    /\ [][headers \subseteq headers' /\ DOMAIN support \subseteq DOMAIN support']_vars

\* C13 witness: x= and x< were registered by one call and x< again by a
\* later one: x= holds the factory of the first call, x< that of the later;
\* both headers ever registered are in the header set, and "x = 1" has
\* compiled with the factory of the first call
C13_Witness ==
    /\ DOMAIN support = {<<"x", "=">>, <<"x", "<">>, <<"x", "y", "=">>}
    /\ support[<<"x", "=">>].of = [header |-> <<"x">>, clauses |-> {"=", "<"}]
    /\ support[<<"x", "<">>].of = [header |-> <<"x">>, clauses |-> {"<"}]
    /\ headers = {<<"x">>, <<"x", "y">>}
    /\ ~parsed.result.throws
    /\ parsed.result.test.factory = support[<<"x", "=">>]

\* C18 (as stated): for every registered pair of header and operator,
\* headers of more than one character included, parse of
\* "<header> <operator> <operand>" calls the factory registered under
\* header+operator with exactly the operand text and does not throw
C18_ParsesRegistered ==
    parsed.registered =>
       /\ ~parsed.result.throws
       /\ parsed.result.test
             = [factory |-> parsed.factory, operand |-> parsed.clause.operand]

\* C18 failing state: the header xy is registered with the operator =, and
\* parse of "xy = 1" threw: it looked up the key "xy", the first character
\* and the character after it
C18_Failing ==
    /\ parsed.registered
    /\ parsed.clause.header = <<"x", "y">> /\ parsed.clause.op = "="
    /\ <<"x", "y", "=">> \in DOMAIN support
    /\ parsed.result.throws
    /\ parsed.result.message
          = <<"u", "n", "e", "x", "p", "e", "c", "t", "e", "d", " ", "\"",
              "x", "y", " ", "=", " ", "1", "\"">>

-----------------------------------------------------------------------------
(* Claims about the interpreter and parseTree, under SpecFold *)

\* the resolver threw in the c-th call it received
Throwing(c) ==
    Resolve(resolver, calls[c].token, calls[c].acc, calls[c].n, calls[c].input).throws

\* the calls in which the resolver threw, in order
ThrowingCalls == SelectSeq([c \in 1..Len(calls) |-> c], Throwing)

\* the error log holds one record per call in which the resolver threw, in
\* the order of the calls: the accumulator the call was given, the token as
\* it stands in the token list, the token list and the position
LoggedOnce ==
    /\ Len(errors) = Len(ThrowingCalls)
    /\ \A e \in 1..Len(errors) :
          errors[e] = [acc |-> calls[ThrowingCalls[e]].acc,
                       token |-> calls[ThrowingCalls[e]].input[calls[ThrowingCalls[e]].n + 1],
                       input |-> calls[ThrowingCalls[e]].input,
                       n |-> calls[ThrowingCalls[e]].n]

\* a fold step in which the resolver threw returned the accumulator it was
\* given, and the token to its left, if any, was folded next with it
PassedOn ==
    \A c \in 1..Len(calls) :
       Throwing(c) =>
          /\ calls[c].out = calls[c].acc
          /\ calls[c].n > 0 =>
                /\ c < Len(calls)
                /\ calls[c + 1].input = calls[c].input
                /\ calls[c + 1].n = calls[c].n - 1
                /\ calls[c + 1].acc = calls[c].acc

\* C14: in the reference interpreter every fold step in which the resolver
\* throws appends exactly one record (accumulator at failure, offending
\* token, full token list, position) to the error log and returns the
\* incoming accumulator unchanged, so that the tokens to the left are still
\* folded; a fold step in which the resolver returns appends nothing; a
\* compile never shortens the log of the interpreter it is given.
C14_FoldLogsAndPasses ==
    /\ [](LoggedOnce /\ PassedOn)
    /\ [][ncompiles' # ncompiles =>
             /\ Len(errors') >= Len(errors)
             /\ SubSeq(errors', 1, Len(errors)) = errors]_vars

\* C14 witness: in "f: g: x" the resolver returned a value for x, threw on
\* g, which was logged with that value, and f was folded with that value;
\* a second compile with the same interpreter has added to the log
C14_Witness ==
    /\ resolver = "strict" /\ ncompiles = 2 /\ prev.same
    /\ outcome = "returned"
    /\ Len(errors) = 2 /\ Len(calls) > 3
    /\ errors[1].acc.sol = VALUE
    /\ errors[1].token = <<" ", "g">>
    /\ errors[1].n = 1
    /\ errors[1].input = Split(FGX, FUN_COMPOSITION)
    /\ \E c \in 2..Len(calls) :
          /\ calls[c].token = <<"f">> /\ calls[c].acc = errors[1].acc
          /\ calls[c - 1].token = <<"g">> /\ calls[c - 1].out = errors[1].acc

\* the 0-based indices at which kw occurs in text
Occurrences(text, kw) == {p - 1 : p \in {q \in 1..Len(text) : OccursAt(text, kw, q)}}

\* the 0-based indices of the character ch in text
IndicesOf(text, ch) == {p \in 0..(Len(text) - 1) : text[p + 1] = ch}

\* kw occurs in text after the last ':' (anywhere, if text holds no ':')
AfterLastColon(text, kw) ==
    \E p \in Occurrences(text, kw) :
       \A c \in IndicesOf(text, FUN_COMPOSITION) : c < p

\* kw occurs in text inside a bracketed cluster: after a '{' that no '}'
\* has closed yet, and before a '}'
InsideCluster(text, kw) ==
    \E p \in Occurrences(text, kw) :
       /\ \E o \in IndicesOf(text, CLUSTER_BEGIN) :
             o < p /\ \A c \in IndicesOf(text, CLUSTER_CLOSE) : ~(o < c /\ c < p)
       /\ \E c \in IndicesOf(text, CLUSTER_CLOSE) : c >= p + Len(kw)

\* C16 (as stated): a dependency name is resolved and substituted only if it
\* occurs after the last ':' of the node's current text or inside a
\* bracketed cluster of that text; a name that occurs only before the last
\* ':' and outside any cluster is left untouched
C16_GatedByLastColon ==
    \A c \in 1..Len(subs) :
       AfterLastColon(subs[c].before, subs[c].k)
       \/ InsideCluster(subs[c].before, subs[c].k)

\* C16 failing state: in "f:b:x" the name b, which stands before the last
\* ':' and in no cluster, was resolved and replaced by the value of the line
\* named b
C16_Failing ==
    \E c \in 1..Len(subs) :
       /\ subs[c].before = <<"f", ":", "b", ":", "x">>
       /\ subs[c].k = <<"b">>
       /\ subs[c].output.sol = VALUE
       /\ subs[c].after
             = <<"f", ":">> \o NumberToString(subs[c].output.val) \o <<":", "x">>
       /\ forest[subs[c].tree].value = subs[c].after

\* C17 (as stated): when a dependency is resolved, its child tree is
\* evaluated if and only if read reports the name absent; whenever read
\* returns a stored value, whatever that value is, the child is not
\* evaluated again
C17_EvaluatedIffAbsent ==
    \A c \in 1..Len(reads) : reads[c].evaluated <=> reads[c].value = Undefined

\* C17 failing state: the interpreter's cache held the empty string for a
\* name, read returned it, and the child tree was evaluated again: the
\* resolver received more calls than the program has segments
C17_Failing ==
    /\ resolver = "blank" /\ outcome = "returned" /\ prev.fresh
    /\ Len(calls) > Segments(program)
    /\ \E c \in 1..Len(reads) :
          /\ reads[c].stored
          /\ reads[c].value = EmptyString
          /\ reads[c].evaluated

-----------------------------------------------------------------------------
(* A claim about the dependency expander, under Spec *)

\* the keys of the dependencies of tree t are publish names, each once
KeysAreNames(t) ==
    /\ \A j \in 1..Len(forest[t].deps) :
          \E d \in 1..Len(forest) : forest[d].ref = forest[t].deps[j]
    /\ \A j, k \in 1..Len(forest[t].deps) :
          forest[t].deps[j] = forest[t].deps[k] => j = k

\* C19: after the dependency expansion of a program without cyclic
\* references, for every tree t and every named tree d, the publish name of d
\* is a key of the dependencies of t if and only if it is a substring of the
\* macro-expanded text of t; the tree under that key is the one tree made
\* for d, the same for every t; a name that occurs nowhere in the text of t
\* is not attached to t.
C19_DepsAreSubstrings ==
    (ncompiles > 0 /\ Acyclic(program)) =>
       /\ Len(forest) = Len(program)
       /\ \A t \in 1..Len(forest) :
             /\ KeysAreNames(t)
             /\ \A d \in 1..Len(forest) :
                   forest[d].ref # NoRef =>
                      /\ InSeq(forest[t].deps, forest[d].ref)
                            <=> IndexOf(program[t][1], forest[d].ref) > -1
                      /\ Mem(forest, forest[d].ref) = d

\* C19 witness: the tree of a named line is a dependency of two other trees,
\* one of which is itself a dependency of a third, and a tree whose text
\* holds no name has no dependency
C19_Witness ==
    /\ ncompiles > 0 /\ Acyclic(program) /\ Len(forest) = 3
    /\ \E t, u, d \in 1..3 :
          /\ t # u /\ t # d /\ u # d
          /\ forest[d].ref # NoRef /\ forest[u].ref # NoRef
          /\ InSeq(forest[t].deps, forest[d].ref)
          /\ InSeq(forest[u].deps, forest[d].ref)
          /\ InSeq(forest[t].deps, forest[u].ref)
          /\ forest[d].deps = <<>>

-----------------------------------------------------------------------------
(* Claims about compile and changes to the program, under SpecEdit *)

\* the program of the most recent compile, as compile read it after macro
\* expansion
Compiled0 == ExpandMacro(prev.program, macro)

\* C15 (as stated, and only for programs without cyclic references): after
\* any sequence of compile calls and changes to the program, the key set of
\* the cache is exactly the set of display keys of the program as it was at
\* the most recent compile
C15_CacheRebuilt ==
    (ncompiles > 0 /\ Acyclic(Compiled0)) => DOMAIN cache = KeysOf(prev.program)

\* C15 failing state: a compile returned, the caller changed the program, and
\* the next compile, on a program without cyclic references, threw a
\* TypeError and left a cache without the key of some line of the program
C15_Failing ==
    /\ ncompiles = 2 /\ prev.outcome = "returned"
    /\ DOMAIN prev.cache # KeysOf(prev.program)
    /\ outcome = "TypeError" /\ Acyclic(Compiled0)
    /\ DOMAIN cache \subseteq KeysOf(prev.program)
    /\ DOMAIN cache # KeysOf(prev.program)

-----------------------------------------------------------------------------
(* Claims about sequences of scan side by side, under SpecScan *)

RECURSIVE Alone(_, _, _)
\* the generator of scan(text) after n calls of next(), no other sequence
\* being iterated, with the registry sup
Alone(text, sup, n) ==
    IF n = 0
    THEN [input |-> text, lastIndex |-> 0, state |-> "created",
          yielded |-> <<>>, error |-> <<>>]
    ELSE NextOf(Alone(text, sup, n - 1), sup)

\* the calls of next() generator g has answered
StepsOf(g) ==
    Len(gens[g].yielded) + (IF gens[g].state \in {"done", "threw"} THEN 1 ELSE 0)

\* generator g stands where scan(text) iterated alone stands after as many
\* calls of next()
AsAlone(g, text) ==
    /\ gens[g].input \in {text, Prefixed(text)}
    /\ gens[g] = Alone(text, support, StepsOf(g))

=============================================================================
